---- MODULE Spec2Model ----
\* Digital-twin simulator: the ingestion server (server.py), the legacy bridge
\* (bridge-server.py) and the dashboard evaluation (app.py) as one state machine.
\*
\* Numbers.  Every sensor value is an integer count of 1e-4 units (25.0 is
\* 250000), so round(x, 3) is a real operation (it keeps multiples of 10).
\* Scores are counted in 1e-5 units and the performance score in 1e-2 units.
\* A JSON value is a record [t, v]: Num(v), Null, or Str (a non-numeric string).
\* A JSON object / Python dict is a function from key strings to JSON values.
EXTENDS Integers, Sequences, FiniteSets, TLC

\* ------------------------------------------------------------------ bounds
\* Number of POST /update submissions a behaviour contains.
MaxReq == 2
\* Last value of the wall clock (time.time()).
MaxTime == 1

\* ------------------------------------------------------------- JSON values
Num(x) == [t |-> "num", v |-> x]
Null == [t |-> "null", v |-> 0]
Str == [t |-> "str", v |-> 0]
EmptyObj == [k \in {} |-> Null]

\* dict.get(key, default)
Get(d, k, default) == IF k \in DOMAIN d THEN d[k] ELSE default

Abs(x) == IF x < 0 THEN -x ELSE x
Max(a, b) == IF a >= b THEN a ELSE b

\* n / d rounded to the nearest integer, ties to the even one (Python's round).
RoundDiv(n, d) ==
    LET q == n \div d
        r == n - q * d
    IN  IF 2 * r < d THEN q
        ELSE IF 2 * r > d THEN q + 1
        ELSE IF q % 2 = 0 THEN q ELSE q + 1

\* round(x, 3) on a value counted in 1e-4 units.
Round3(x) == 10 * RoundDiv(x, 10)

\* ---------------------------------------------------------------- server.py
\* curr_raw <= 50
DIRECT_AMPS_MAX == 500000
\* The raw value at which the sensor voltage equals v_zero = Vref / 2:
\* SCALE * adc_max / 2 = 0.04 * 4095 / 2 = 81.9.
ZERO_CURRENT_RAW == 819000
\* amps = |raw - 81.9| * Vref / (SCALE * adc_max * sensitivity)
\*      = |raw - 81.9| * 3.3 / (0.04 * 4095 * 0.185) = |raw - 81.9| * 1100 / 10101
AMPS_NUM == 1100
AMPS_DEN == 10101

\* The ADC inversion shared by both copies of the formula, result rounded to
\* 3 decimals: raw and result in 1e-4 units.
AdcAmps(raw) == 10 * RoundDiv(AMPS_NUM * Abs(raw - ZERO_CURRENT_RAW), 10 * AMPS_DEN)

\* calculate_current_amps on a finite float.
calculate_current_amps(curr_raw) ==
    IF curr_raw <= DIRECT_AMPS_MAX
    THEN Num(Round3(Abs(curr_raw)))
    ELSE Num(AdcAmps(curr_raw))

Required == {"temp", "vibration", "sound", "current"}

\* SensorPayload(**payload): every required field present and a float.
SensorPayloadValid(obj) == \A f \in Required : f \in DOMAIN obj /\ obj[f].t = "num"

\* latest_data at import time.
InitialData ==
    [temp |-> Null, vibration |-> Null, sound |-> Null, current |-> Null,
     current_amps |-> Null, ts |-> Null]

\* append_csv_row: the header goes first into a file that does not exist yet;
\* an I/O failure is caught inside and nothing is written.
CsvHeader == <<"ts", "temp", "vibration", "sound", "current", "current_amps">>
CsvRow(row) == <<row.ts, row.temp, row.vibration, row.sound, row.current, row.current_amps>>

append_csv_row_raises(log, row, ioFails) ==
    IF ioFails THEN [csv |-> log, raised |-> TRUE]
    ELSE [csv |-> (IF log = <<>> THEN <<CsvHeader>> ELSE log) \o <<CsvRow(row)>>,
          raised |-> FALSE]

append_csv_row(log, row, ioFails) ==
    IF ioFails THEN [csv |-> log, raised |-> FALSE]
    ELSE [csv |-> (IF log = <<>> THEN <<CsvHeader>> ELSE log) \o <<CsvRow(row)>>,
          raised |-> FALSE]

\* ts = time.time(), taken after the body has been read and validated.
TimeAtArrival(arrived, clock) == arrived

TimeOfReceipt(arrived, clock) == clock

\* The dict assigned to latest_data: a fresh dict, all six keys at once.
NewReadingStaleAmps(old, obj, ts) ==
    [temp |-> Num(Round3(obj.temp.v)),
     vibration |-> Num(Round3(obj.vibration.v)),
     sound |-> Num(Round3(obj.sound.v)),
     current |-> Num(Round3(obj.current.v)),
     current_amps |-> IF old.ts = Null THEN calculate_current_amps(obj.current.v)
                      ELSE old.current_amps,
     ts |-> Num(ts)]

NewReading(old, obj, ts) ==
    [temp |-> Num(Round3(obj.temp.v)),
     vibration |-> Num(Round3(obj.vibration.v)),
     sound |-> Num(Round3(obj.sound.v)),
     current |-> Num(Round3(obj.current.v)),
     current_amps |-> calculate_current_amps(obj.current.v),
     ts |-> Num(ts)]

Response(code, status, received_at) ==
    [code |-> code, status |-> status, received_at |-> received_at]
NoResponse == Response(0, "", Null)

\* update_sensor from the point where the body has arrived to the response.
\* body = [parses, obj]; the result is the new store, the new log, the response
\* and the number of append attempts.
update_sensor_stamps_first(ld, log, body, arrived, clock, ioFails) ==
    LET ts == TimeOfReceipt(arrived, clock)
        stamped == [ld EXCEPT !.ts = Num(ts)]
    IN  IF ~body.parses
        THEN [latest_data |-> ld, csv |-> log, appends |-> 0,
              resp |-> Response(400, "Invalid JSON", Null)]
        ELSE IF ~SensorPayloadValid(body.obj)
        THEN [latest_data |-> stamped, csv |-> log, appends |-> 0,
              resp |-> Response(422, "Payload validation failed", Null)]
        ELSE LET new == NewReading(ld, body.obj, ts)
                 app == append_csv_row(log, new, ioFails)
             IN  [latest_data |-> new, csv |-> app.csv, appends |-> 1,
                  resp |-> IF app.raised
                           THEN Response(500, "Internal Server Error", Null)
                           ELSE Response(200, "ok", Num(ts))]

update_sensor(ld, log, body, arrived, clock, ioFails) ==
    IF ~body.parses
    THEN [latest_data |-> ld, csv |-> log, appends |-> 0,
          resp |-> Response(400, "Invalid JSON", Null)]
    ELSE IF ~SensorPayloadValid(body.obj)
    THEN [latest_data |-> ld, csv |-> log, appends |-> 0,
          resp |-> Response(422, "Payload validation failed", Null)]
    ELSE LET ts == TimeOfReceipt(arrived, clock)
             new == NewReading(ld, body.obj, ts)
             app == append_csv_row(log, new, ioFails)
         IN  [latest_data |-> new, csv |-> app.csv, appends |-> 1,
              resp |-> IF app.raised
                       THEN Response(500, "Internal Server Error", Null)
                       ELSE Response(200, "ok", Num(ts))]

\* get_latest
get_latest_no_empty(ld) == ld

get_latest(ld) == IF ld.ts = Null THEN EmptyObj ELSE ld

\* ---------------------------------------------------------- bridge-server.py
\* latest_data at import time: zeros, current_amps null, no ts key.
BridgeInitialData ==
    [temp |-> Num(0), vibration |-> Num(0), sound |-> Num(0), current |-> Num(0),
     current_amps |-> Null]

\* latest_data.update(data): the keys of data overwrite, the others stay.
bridge_update(ld, data) ==
    [k \in DOMAIN ld \cup DOMAIN data |-> IF k \in DOMAIN data THEN data[k] ELSE ld[k]]

\* -------------------------------------------------------------------- app.py
TEMP_LIMIT == 600000
VIB_LIMIT == 45000
SOUND_LIMIT == 800000
CURR_LIMIT == 40000

\* value > 0.8 * limit
AboveWarning(value, limit) == 5 * value > 4 * limit

\* get_status(value, limit), value a JSON value (Null is Python's None).
get_status(value, limit) ==
    IF value = Null THEN "Unknown"
    ELSE IF value.v > limit THEN "High"
    ELSE IF AboveWarning(value.v, limit) THEN "Warning"
    ELSE "Normal"

\* get_ai_suggestion: the insights, in the order they are appended.
get_ai_suggestion(temp, vib, snd, curr) ==
    LET t == IF temp > TEMP_LIMIT THEN <<"temp_high">>
             ELSE IF AboveWarning(temp, TEMP_LIMIT) THEN <<"temp_rising">> ELSE <<>>
        s == IF snd > SOUND_LIMIT THEN <<"sound_loud">>
             ELSE IF AboveWarning(snd, SOUND_LIMIT) THEN <<"sound_increasing">> ELSE <<>>
        c == IF curr # Null
             THEN IF curr.v > CURR_LIMIT THEN <<"current_overload">>
                  ELSE IF AboveWarning(curr.v, CURR_LIMIT) THEN <<"current_rising">>
                  ELSE <<>>
             ELSE <<"current_not_available">>
        v == IF vib > VIB_LIMIT THEN <<"vibration_high">>
             ELSE IF AboveWarning(vib, VIB_LIMIT) THEN <<"vibration_slight">> ELSE <<>>
        insights == t \o s \o c \o v
    IN  IF insights = <<>> THEN <<"stable">> ELSE insights

\* The dashboard's fallback conversion (no "already amps" branch).
fallback_conversion(curr_raw) == Num(AdcAmps(curr_raw))

\* temp < -40 or temp > 150 or temp == 0
TEMP_MIN == -400000
TEMP_MAX == 1500000
TempImplausible(temp) == temp < TEMP_MIN \/ temp > TEMP_MAX \/ temp = 0

\* round(35 + random.uniform(-3, 12), 2): the lowest, a middle and the highest.
SyntheticTemps == {320000, 415000, 470000}

\* The score terms in 1e-5 units (100 is FULL_SCORE); curr is a JSON value.
FULL_SCORE == 10000000
IDEAL_TEMP == 350000
IDEAL_CURR == 15000
temp_score(temp) == Max(0, FULL_SCORE - Abs(temp - IDEAL_TEMP) * 20)
vib_score(vib) == Max(0, FULL_SCORE - vib * 150)
sound_score(snd) == Max(0, FULL_SCORE - snd * 12)
curr_score(curr) ==
    Max(0, FULL_SCORE - Abs((IF curr # Null THEN curr.v ELSE IDEAL_CURR) - IDEAL_CURR) * 250)

\* perf = round((temp_score + vib_score + sound_score + curr_score) / 4, 2), in 1e-2 units.
performance(temp, vib, snd, curr) ==
    RoundDiv(temp_score(temp) + vib_score(vib) + sound_score(snd) + curr_score(curr), 4000)

\* The try block: the values the script holds when it leaves it.  fetchOk is
\* whether requests.get(...).json() returned; u is the random synthetic
\* temperature.  float(x) raises on None and on a non-numeric string, and any
\* exception takes the except branch.
Readings(fetchOk, resp, u) ==
    LET failed == [path |-> "except", temp |-> 0, vib |-> 0, snd |-> 0,
                   curr |-> Null, perf |-> 0, curr_raw |-> 0, fallback |-> FALSE]
        t == Get(resp, "temp", Num(0))
        v == Get(resp, "vibration", Num(0))
        s == Get(resp, "sound", Num(0))
        c == Get(resp, "current", Num(0))
        a == Get(resp, "current_amps", Null)
    IN  IF ~fetchOk THEN failed
        ELSE IF \E x \in {t, v, s, c} : x.t # "num" THEN failed
        ELSE IF a.t = "str" THEN failed
        ELSE LET curr == IF a # Null THEN a ELSE fallback_conversion(c.v)
                 temp == IF TempImplausible(t.v) THEN u ELSE t.v
             IN  [path |-> "try", temp |-> temp, vib |-> v.v, snd |-> s.v,
                  curr |-> curr, perf |-> performance(temp, v.v, s.v, curr),
                  curr_raw |-> c.v, fallback |-> (a = Null)]

\* The offenders list.
offenders_at_limit(temp, vib, snd, curr) ==
    (IF temp >= TEMP_LIMIT THEN <<"Temperature">> ELSE <<>>)
    \o (IF vib >= VIB_LIMIT THEN <<"Vibration">> ELSE <<>>)
    \o (IF snd >= SOUND_LIMIT THEN <<"Sound">> ELSE <<>>)
    \o (IF curr # Null /\ curr.v >= CURR_LIMIT THEN <<"Current">> ELSE <<>>)

offenders(temp, vib, snd, curr) ==
    (IF temp > TEMP_LIMIT THEN <<"Temperature">> ELSE <<>>)
    \o (IF vib > VIB_LIMIT THEN <<"Vibration">> ELSE <<>>)
    \o (IF snd > SOUND_LIMIT THEN <<"Sound">> ELSE <<>>)
    \o (IF curr # Null /\ curr.v > CURR_LIMIT THEN <<"Current">> ELSE <<>>)

\* One run of the script, from the fetch to the insight panel.
Dashboard(fetchOk, resp, u) ==
    LET r == Readings(fetchOk, resp, u)
        off == offenders(r.temp, r.vib, r.snd, r.curr)
        currOrZero == IF r.curr # Null THEN r.curr ELSE Num(0)
    IN  [ran |-> TRUE, fetched |-> fetchOk, resp |-> IF fetchOk THEN resp ELSE EmptyObj,
         path |-> r.path, temp |-> r.temp, vib |-> r.vib, snd |-> r.snd,
         curr |-> r.curr, perf |-> r.perf, curr_raw |-> r.curr_raw,
         fallback |-> r.fallback,
         temp_status |-> get_status(Num(r.temp), TEMP_LIMIT),
         vib_status |-> get_status(Num(r.vib), VIB_LIMIT),
         snd_status |-> get_status(Num(r.snd), SOUND_LIMIT),
         curr_status |-> get_status(currOrZero, CURR_LIMIT),
         offenders |-> off,
         critical_sensors |-> Len(off),
         alert |-> Len(off) >= 1,
         ai_message |-> get_ai_suggestion(r.temp, r.vib, r.snd, currOrZero)]

\* Before the script has run.
NotRun ==
    [ran |-> FALSE, fetched |-> FALSE, resp |-> EmptyObj,
     path |-> "", temp |-> 0, vib |-> 0, snd |-> 0,
     curr |-> Null, perf |-> 0, curr_raw |-> 0, fallback |-> FALSE,
     temp_status |-> "", vib_status |-> "", snd_status |-> "", curr_status |-> "",
     offenders |-> <<>>, critical_sensors |-> 0, alert |-> FALSE, ai_message |-> <<>>]

\* ------------------------------------------------------------------ inputs
Obj(temp, vibration, sound, current) ==
    [temp |-> temp, vibration |-> vibration, sound |-> sound, current |-> current]
Drop(obj, key) == [k \in DOMAIN obj \ {key} |-> obj[k]]
Json(obj) == [parses |-> TRUE, obj |-> obj]

\* {temp: 25, vibration: 0.5, sound: 40, current: 1.2}
NominalObj == Obj(Num(250000), Num(5000), Num(400000), Num(12000))
\* Everything over its limit; temp 61.0004 rounds to 61.0; current 120 is ADC-scaled.
HotObj == Obj(Num(610004), Num(46000), Num(810000), Num(1200000))
\* Negative vibration and sound.
NegativeObj == Obj(Num(350000), Num(-100000), Num(-100000), Num(15000))
\* Every value exactly at its limit.
AtLimitObj == Obj(Num(600000), Num(45000), Num(800000), Num(40000))
\* A disconnected probe (temp 0) and a negative current, -2.3456.
ProbeOffObj == Obj(Num(0), Num(1000), Num(10000), Num(-23456))

ValidBodies == {Json(NominalObj), Json(HotObj), Json(NegativeObj), Json(AtLimitObj),
                Json(ProbeOffObj)}
InvalidBodies == {[parses |-> FALSE, obj |-> EmptyObj],
                  Json(Drop(NominalObj, "sound")),
                  Json([HotObj EXCEPT !.current = Str])}
Bodies == ValidBodies \cup InvalidBodies
\* The bodies that differ for the server: the two left out matter only to the
\* dashboard's thresholds and score.  Every number is a finite float.
ServerBodies == Bodies \ {Json(NegativeObj), Json(AtLimitObj)}

\* What a device posts to the bridge: a full reading, a partial one, a reading
\* that carries its own amps, and a null temperature.
BridgeBodies == {NominalObj, HotObj,
                 [temp |-> Num(700000)],
                 [current |-> Num(30000), current_amps |-> Num(30000)],
                 [temp |-> Null]}

Reqs == 1 .. MaxReq

\* ------------------------------------------------------------------- state
VARIABLES
    backend,      \* which program listens on port 5000: "server" or "bridge"
    now,          \* time.time()
    latest_data,  \* server.py's latest_data
    csv,          \* sensor_log.csv: its rows, <<>> while the file does not exist
    req,          \* the POST /update submissions: pc, body, response, bookkeeping
    order,        \* the submissions in the order their handlers finished
    lastGet,      \* the most recent GET /latest response of server.py
    bridge_data,  \* bridge-server.py's latest_data
    dash          \* what the last run of the dashboard script computed

vars == <<backend, now, latest_data, csv, req, order, lastGet, bridge_data, dash>>

IdleReq ==
    [pc |-> "idle", body |-> [parses |-> FALSE, obj |-> EmptyObj], arrived |-> 0,
     resp |-> NoResponse, ioFailed |-> FALSE, appends |-> 0]

Init ==
    /\ backend \in {"server", "bridge"}
    /\ now = 0
    /\ latest_data = InitialData
    /\ csv = <<>>
    /\ req = [r \in Reqs |-> IdleReq]
    /\ order = <<>>
    /\ lastGet = EmptyObj
    /\ bridge_data = BridgeInitialData
    /\ dash = NotRun

\* The wall clock advances.
Tick ==
    /\ now < MaxTime
    /\ now' = now + 1
    /\ UNCHANGED <<backend, latest_data, csv, req, order, lastGet, bridge_data, dash>>

\* POST /update reaches update_sensor, which suspends at `await request.json()`.
\* Submissions take the slots in order.
Arrive(r, body) ==
    /\ backend = "server"
    /\ req[r].pc = "idle"
    /\ \A q \in Reqs : q < r => req[q].pc # "idle"
    /\ req' = [req EXCEPT ![r] = [IdleReq EXCEPT !.pc = "awaiting", !.body = body,
                                                 !.arrived = now]]
    /\ UNCHANGED <<backend, now, latest_data, csv, order, lastGet, bridge_data, dash>>

\* The body has been read: the rest of update_sensor runs without another
\* await, so no other handler of the event loop interleaves with it.
Complete(r, ioFails) ==
    /\ req[r].pc = "awaiting"
    /\ LET out == update_sensor(latest_data, csv, req[r].body, req[r].arrived, now, ioFails)
       IN  /\ latest_data' = out.latest_data
           /\ csv' = out.csv
           /\ req' = [req EXCEPT ![r].pc = "done", ![r].resp = out.resp,
                                 ![r].appends = out.appends,
                                 ![r].ioFailed = (ioFails /\ out.appends > 0)]
    /\ order' = Append(order, r)
    /\ UNCHANGED <<backend, now, lastGet, bridge_data, dash>>

\* GET /latest of server.py, from any client.
GetLatest ==
    /\ backend = "server"
    /\ lastGet' = get_latest(latest_data)
    /\ UNCHANGED <<backend, now, latest_data, csv, req, order, bridge_data, dash>>

\* POST /update of bridge-server.py.
BridgeUpdate(data) ==
    /\ backend = "bridge"
    /\ bridge_data' = bridge_update(bridge_data, data)
    /\ UNCHANGED <<backend, now, latest_data, csv, req, order, lastGet, dash>>

\* One run of the dashboard script against whatever listens on port 5000.
Poll(u) ==
    /\ LET resp == IF backend = "server" THEN get_latest(latest_data) ELSE bridge_data
       IN  dash' = Dashboard(TRUE, resp, u)
    /\ UNCHANGED <<backend, now, latest_data, csv, req, order, lastGet, bridge_data>>

\* A run of the script whose fetch fails (nothing listens, or the timeout).
PollFails ==
    /\ dash' = Dashboard(FALSE, EmptyObj, 0)
    /\ UNCHANGED <<backend, now, latest_data, csv, req, order, lastGet, bridge_data>>

Next ==
    \/ Tick
    \/ \E r \in Reqs, body \in Bodies : Arrive(r, body)
    \/ \E r \in Reqs, ioFails \in BOOLEAN : Complete(r, ioFails)
    \/ GetLatest
    \/ \E data \in BridgeBodies : BridgeUpdate(data)
    \/ \E u \in SyntheticTemps : Poll(u)
    \/ PollFails

Spec == Init /\ [][Next]_vars

\* The ingestion server with its clients: submissions and readers.
NextServer ==
    \/ Tick
    \/ \E r \in Reqs, body \in ServerBodies : Arrive(r, body)
    \/ \E r \in Reqs, ioFails \in BOOLEAN : Complete(r, ioFails)
    \/ GetLatest

SpecServer == Init /\ [][NextServer]_vars

\* The dashboard against either backend; it reads no timestamp, so the clock
\* stands still.
NextDash ==
    \/ \E r \in Reqs, body \in Bodies : Arrive(r, body)
    \/ \E r \in Reqs, ioFails \in BOOLEAN : Complete(r, ioFails)
    \/ \E data \in BridgeBodies : BridgeUpdate(data)
    \/ \E u \in SyntheticTemps : Poll(u)
    \/ PollFails

SpecDash == Init /\ [][NextDash]_vars

\* ------------------------------------------------------- claims: vocabulary
\* A body the endpoint has to accept: it parses and carries the four numbers.
WellFormed(body) ==
    /\ body.parses
    /\ \A f \in Required : f \in DOMAIN body.obj /\ body.obj[f].t = "num"

IsAccepted(r) == WellFormed(req[r].body)

\* The accepted submissions in the order their handlers finished.
Accepted == SelectSeq(order, IsAccepted)
LastAccepted == Accepted[Len(Accepted)]

\* The record submission r stands for: its own four values, the amps derived
\* from its own current, and the timestamp its own response reports.
Expected(r) ==
    LET obj == req[r].body.obj
    IN  [temp |-> Num(Round3(obj.temp.v)),
         vibration |-> Num(Round3(obj.vibration.v)),
         sound |-> Num(Round3(obj.sound.v)),
         current |-> Num(Round3(obj.current.v)),
         current_amps |-> calculate_current_amps(obj.current.v),
         ts |-> req[r].resp.received_at]

Quiescent == \A r \in Reqs : req[r].pc # "awaiting"

Range(seq) == {seq[i] : i \in DOMAIN seq}

\* ------------------------------------------------------------ claims: server
\* C1: a rejected POST /update (400 for a body that is not JSON, 422 for a
\* missing or non-numeric required field) changes neither latest_data nor the
\* CSV log, so GET /latest answers as before.
C1_RejectedLeavesStore ==
    [][\A r \in Reqs :
          (req[r].pc = "awaiting" /\ req'[r].pc = "done" /\ ~WellFormed(req[r].body))
          => /\ req'[r].resp.code = (IF req[r].body.parses THEN 422 ELSE 400)
             /\ latest_data' = latest_data
             /\ csv' = csv
             /\ get_latest(latest_data') = get_latest(latest_data)]_vars

\* C1 witness: a submission without `sound` was rejected after another one had
\* been accepted and logged.
C1_Witness ==
    /\ Len(order) = 2
    /\ IsAccepted(order[1])
    /\ req[order[2]].resp.code = 422
    /\ "sound" \notin DOMAIN req[order[2]].body.obj
    /\ latest_data = Expected(order[1])
    /\ Len(csv) = 2

\* C2: once every submission has completed, GET /latest returns, key by key,
\* the record of the one accepted submission that wrote last.
C2_NoTornRead ==
    (Quiescent /\ Len(Accepted) >= 2)
    => LET got == get_latest(latest_data)
       IN  /\ DOMAIN got = DOMAIN Expected(LastAccepted)
           /\ \A k \in DOMAIN got : got[k] = Expected(LastAccepted)[k]

\* C2 witness: two accepted submissions with different bodies were in flight
\* together and finished in the reverse of their arrival order.
C2_Witness ==
    /\ Quiescent
    /\ order = <<2, 1>>
    /\ IsAccepted(1) /\ IsAccepted(2)
    /\ req[1].body # req[2].body
    /\ get_latest(latest_data) = Expected(1)

\* C3: the timestamps of successive non-empty GET /latest responses never
\* decrease (the wall clock itself is taken not to step backwards).
C3_ServedTsMonotone ==
    [][(lastGet # EmptyObj /\ lastGet' # EmptyObj) => lastGet'.ts.v >= lastGet.ts.v]_vars

\* C3 witness: the submission that arrived first finished last, at a later
\* clock value than the other, and its record has been served.
C3_Witness ==
    /\ order = <<2, 1>>
    /\ IsAccepted(1) /\ IsAccepted(2)
    /\ req[2].resp.received_at = Num(0)
    /\ req[1].arrived = 0
    /\ lastGet # EmptyObj
    /\ lastGet.ts = Num(1)

C5_AppendFailureSwallowed ==
    \A r \in Reqs :
        (req[r].pc = "done" /\ req[r].ioFailed)
        => /\ req[r].resp.code = 200
           /\ req[r].resp.status = "ok"
           /\ req[r].resp.received_at.t = "num"
           /\ req[r].appends = 1
           /\ (LastAccepted = r => get_latest(latest_data) = Expected(r))

\* C5 witness: the only accepted submission lost its log row and is what
\* GET /latest returns.
C5_Witness ==
    \E r \in Reqs :
        /\ req[r].pc = "done" /\ req[r].ioFailed
        /\ Accepted = <<r>>
        /\ csv = <<>>
        /\ lastGet = Expected(r)

\* --------------------------------------------------------- claims: dashboard
\* C6: a poll that finds no reading yet (the empty object of server.py, the
\* initial record of bridge-server.py) reports no offender and raises no alert.
C6_NoReadingNoAlert ==
    (dash.ran /\ dash.fetched /\ (dash.resp = EmptyObj \/ dash.resp = BridgeInitialData))
    => (dash.offenders = <<>> /\ ~dash.alert)

\* C7: an absent current gets the status Unknown and the 'Not available' insight.
C7_AbsentCurrentUnknown ==
    (dash.ran /\ dash.curr = Null)
    => /\ dash.curr_status = "Unknown"
       /\ "current_not_available" \in Range(dash.ai_message)

\* C8: the performance score lies in [0, 100].
C8_PerfInRange == dash.ran => (0 <= dash.perf /\ dash.perf <= 10000)

\* C9: the alert is raised exactly when some sensor is strictly over its hard
\* limit (current only when present), and the offenders are exactly those
\* sensors, each once.
OverLimit ==
    (IF dash.temp > TEMP_LIMIT THEN {"Temperature"} ELSE {})
    \cup (IF dash.vib > VIB_LIMIT THEN {"Vibration"} ELSE {})
    \cup (IF dash.snd > SOUND_LIMIT THEN {"Sound"} ELSE {})
    \cup (IF dash.curr.t = "num" /\ dash.curr.v > CURR_LIMIT THEN {"Current"} ELSE {})

C9_FaultIffOverLimit ==
    dash.ran
    => /\ dash.alert <=> (OverLimit # {})
       /\ dash.alert <=> (dash.critical_sensors >= 1)
       /\ Range(dash.offenders) = OverLimit
       /\ Len(dash.offenders) = Cardinality(OverLimit)

\* C9 witness: a reading with every value exactly at its limit raised nothing.
C9_Witness ==
    /\ dash.ran /\ dash.path = "try"
    /\ dash.temp = TEMP_LIMIT /\ dash.vib = VIB_LIMIT /\ dash.snd = SOUND_LIMIT
    /\ dash.curr = Num(CURR_LIMIT)
    /\ ~dash.alert

\* C10: whenever the dashboard falls back to its own conversion, it computes
\* what calculate_current_amps computes for the same raw current.
C10_ConversionsAgree ==
    (dash.ran /\ dash.fallback) => dash.curr = calculate_current_amps(dash.curr_raw)

====
